---- MODULE Spec2Model ----
(***************************************************************************)
(* CheckSSL::from_domain (src/lib.rs): the pass over the peer certificate  *)
(* chain that fills one ServerCert and one IntermediateCert record.        *)
(*                                                                         *)
(* A certificate is modelled by what the x509 decoder exposes to the pass: *)
(* whether its DER decodes, its basic-constraints extension, its validity  *)
(* window, its signature-algorithm OID, its subject-alternative-name       *)
(* extension and its issuer / subject RDN sequences.  Instants are whole   *)
(* seconds.  One step of the model is one iteration of the `for` loop.     *)
(***************************************************************************)
EXTENDS Integers, Sequences, FiniteSets, TLC

VARIABLES pc, peer, idx, server_cert, intermediate_cert, result, now, reads

vars == <<pc, peer, idx, server_cert, intermediate_cert, result, now, reads>>

\* Longest certificate chain the handshake hands over.
MaxChain == 2

(***************************************************************************)
(* The certificates the peer may present.                                  *)
(***************************************************************************)

\* Attribute-type and algorithm OIDs.
OID_CN  == "2.5.4.3"
OID_C   == "2.5.4.6"
OID_L   == "2.5.4.7"
OID_ST  == "2.5.4.8"
OID_O   == "2.5.4.10"
OID_OU  == "2.5.4.11"
OID_SHA256RSA == "1.2.840.113549.1.1.11"
OID_UNKNOWN   == "1.3.6.1.4.1.99999.1"

\* One AttributeTypeAndValue; is_str: the value is a character string type
\* that BerObjectContent::as_str accepts.
Attr(t, v) == [attr_type |-> t, value |-> v, is_str |-> TRUE]
RawAttr(t, v) == [attr_type |-> t, value |-> v, is_str |-> FALSE]

\* A single-valued RDN.
Rdn(t, v) == <<Attr(t, v)>>

NoSan == [present |-> FALSE, general_names |-> <<>>]
San(names) == [present |-> TRUE, general_names |-> names]
DNS(s) == [kind |-> "DNSName", value |-> s]
IP(s)  == [kind |-> "IPAddress", value |-> s]

\* The instants at which the clock may be read.
ClockReads == {1, 86400}

\* Validity windows <<not_before, not_after>>: every ordering of the clock
\* reads, not_before and not_after, with equalities, day boundaries and
\* inverted windows.
Windows ==
    { <<0, 172799>>, <<0, 0>>, <<1, 1>>, <<0, 86400>>, <<0, 86401>>,
      <<86400, 172799>>, <<172799, 172799>>, <<86400, 0>>, <<172799, 86401>> }

BaseCert(bc) ==
    [ der_ok  |-> TRUE,
      basic_constraints |-> bc,          \* "absent", "false" or "true"
      not_before |-> 0,
      not_after  |-> 172799,
      sig_oid |-> OID_SHA256RSA,
      san     |-> NoSan,
      issuer  |-> <<Rdn(OID_CN, "Root")>>,
      subject |-> <<Rdn(OID_CN, "base")>> ]

WindowCerts ==
    { [BaseCert(bc) EXCEPT !.not_before = w[1], !.not_after = w[2]] :
        bc \in {"absent", "true"}, w \in Windows }

FullSubject(tag) ==
    << Rdn(OID_C, "FR"), Rdn(OID_ST, "IdF"), Rdn(OID_L, "Paris"),
       Rdn(OID_O, tag), Rdn(OID_OU, "unit"), Rdn(OID_CN, tag) >>

NameCerts ==
    { [BaseCert("true") EXCEPT !.subject = FullSubject("CA1"),
                               !.issuer = <<Rdn(OID_O, "RootOrg"), Rdn(OID_CN, "Root1")>>],
      [BaseCert("true") EXCEPT !.subject = <<>>,
                               !.issuer = <<Rdn(OID_O, "RootOrg")>>],
      [BaseCert("absent") EXCEPT !.subject = FullSubject("leaf1")],
      \* a multi-valued RDN whose second attribute is unknown, and two CNs
      [BaseCert("absent") EXCEPT !.subject =
           << <<Attr(OID_OU, "unit"), Attr(OID_UNKNOWN, "x")>>,
              Rdn(OID_CN, "first"), Rdn(OID_CN, "second") >>],
      BaseCert("false") }

SanCerts ==
    { [BaseCert("absent") EXCEPT !.san = San(<<DNS("a.com"), IP("1.2.3.4"), DNS("b.com")>>)],
      [BaseCert("absent") EXCEPT !.san = San(<<DNS("a.com"), DNS("a.com")>>)],
      [BaseCert("absent") EXCEPT !.san = San(<<IP("1.2.3.4")>>)],
      \* a CA certificate carrying a SAN extension
      [BaseCert("true") EXCEPT !.san = San(<<DNS("ca.com")>>)] }

FailingCerts ==
    { [BaseCert("absent") EXCEPT !.der_ok = FALSE],
      [BaseCert("absent") EXCEPT !.sig_oid = OID_UNKNOWN],
      [BaseCert("true") EXCEPT !.sig_oid = OID_UNKNOWN],
      [BaseCert("absent") EXCEPT !.issuer = <<Rdn(OID_CN, "Root"), Rdn(OID_UNKNOWN, "x")>>],
      [BaseCert("true") EXCEPT !.subject = <<Rdn(OID_O, "Org"), Rdn(OID_UNKNOWN, "x")>>],
      \* a subject attribute whose value is no character string (as_str fails)
      [BaseCert("absent") EXCEPT !.subject = <<Rdn(OID_O, "Org"), <<RawAttr(OID_CN, "bmp")>>>>] }

Certs == WindowCerts \cup NameCerts \cup SanCerts \cup FailingCerts

RECURSIVE SeqsUpTo(_, _)
SeqsUpTo(S, n) ==
    IF n = 0 THEN { <<>> }
    ELSE LET shorter == SeqsUpTo(S, n - 1)
         IN  shorter \cup { Append(s, x) : s \in { t \in shorter : Len(t) = n - 1 }, x \in S }

Chains == SeqsUpTo(Certs, MaxChain)

(***************************************************************************)
(* The library calls the pass makes.                                       *)
(***************************************************************************)

\* x509_parser::objects::oid2sn: the short name of a registered OID, or Err.
oid2sn(oid) ==
    CASE oid = OID_CN -> [ok |-> TRUE, sn |-> "CN"]
      [] oid = OID_C  -> [ok |-> TRUE, sn |-> "C"]
      [] oid = OID_L  -> [ok |-> TRUE, sn |-> "L"]
      [] oid = OID_ST -> [ok |-> TRUE, sn |-> "ST"]
      [] oid = OID_O  -> [ok |-> TRUE, sn |-> "O"]
      [] oid = OID_OU -> [ok |-> TRUE, sn |-> "OU"]
      [] oid = OID_SHA256RSA -> [ok |-> TRUE, sn |-> "RSA-SHA256"]
      [] OTHER -> [ok |-> FALSE, sn |-> ""]

\* is_valid with exclusive bounds.
is_valid_exclusive(c, t) == t > c.not_before /\ t < c.not_after

\* Validity::is_valid, with the clock read at t.
is_valid(c, t) == t >= c.not_before /\ t <= c.not_after

\* time_to_expiration that looks at not_after alone.
time_to_expiration_not_after_only(c, t) ==
    IF c.not_after > t
    THEN [some |-> TRUE, secs |-> c.not_after - t]
    ELSE [some |-> FALSE, secs |-> 0]

\* Validity::time_to_expiration, with the clock read at t: None unless the
\* certificate is valid at t, else the duration left until not_after.
time_to_expiration(c, t) ==
    IF is_valid(c, t)
    THEN [some |-> TRUE, secs |-> c.not_after - t]
    ELSE [some |-> FALSE, secs |-> 0]

\* format_days that rounds to the nearest day.
format_days_rounded(secs) == ToString((secs + 43200) \div 86400) \o " day(s)"

\* format!("{:?} day(s)", d.as_secs() / 60 / 60 / 24)
format_days(secs) == ToString(((secs \div 60) \div 60) \div 24) \o " day(s)"

(***************************************************************************)
(* The records and the steps of one loop iteration.                        *)
(***************************************************************************)

NewServerCert(t) ==
    [ common_name |-> "", signature_algorithm |-> "", sans |-> <<>>,
      country |-> "", state |-> "", locality |-> "", organization |-> "",
      not_after |-> t, not_before |-> t, issuer |-> "",
      is_valid |-> FALSE, time_to_expiration |-> "" ]

NewIntermediateCert(t) ==
    [ common_name |-> "", signature_algorithm |-> "",
      country |-> "", state |-> "", locality |-> "", organization |-> "",
      not_after |-> t, not_before |-> t, issuer |-> "",
      is_valid |-> FALSE, time_to_expiration |-> "" ]

\* is_ca that takes the presence of the extension for the CA flag.
is_ca_when_present(c) == c.basic_constraints # "absent"

\* basic_constraints(): Some((_, bc)) => bc.ca, None => false
is_ca(c) ==
    IF c.basic_constraints = "absent" THEN FALSE
    ELSE c.basic_constraints = "true"

set_validity(rec, c, t) ==
    [rec EXCEPT !.is_valid = is_valid(c, t),
                !.not_after = c.not_after,
                !.not_before = c.not_before]

\* if let Some(d) = time_to_expiration() { rec.time_to_expiration = ... }
set_expiration(rec, c, t) ==
    LET tte == time_to_expiration(c, t)
    IN  IF tte.some
        THEN [rec EXCEPT !.time_to_expiration = format_days(tte.secs)]
        ELSE rec

\* The DNS names of a general-name list, in order.
RECURSIVE dns_names(_)
dns_names(names) ==
    IF names = <<>> THEN <<>>
    ELSE IF Head(names).kind = "DNSName"
         THEN <<Head(names).value>> \o dns_names(Tail(names))
         ELSE dns_names(Tail(names))

\* push_sans that pushes every general name, whatever its type.
push_sans_any_type(rec, c) ==
    IF c.san.present
    THEN [rec EXCEPT !.sans = @ \o [i \in 1..Len(c.san.general_names) |->
                                       c.san.general_names[i].value]]
    ELSE rec

\* push_sans that starts from an empty list for each certificate.
push_sans_reset(rec, c) ==
    [rec EXCEPT !.sans = IF c.san.present THEN dns_names(c.san.general_names) ELSE <<>>]

\* if let Some((_, san)) = subject_alternative_name() { push each DNSName }
push_sans(rec, c) ==
    IF c.san.present
    THEN [rec EXCEPT !.sans = @ \o dns_names(c.san.general_names)]
    ELSE rec

\* for rdn_seq in &issuer.rdn_seq: only set[0] is consulted.
RECURSIVE issuer_loop(_, _, _)
issuer_loop(rec, rdn_seq, i) ==
    IF i > Len(rdn_seq) THEN [rec |-> rec, status |-> "ok"]
    ELSE IF Len(rdn_seq[i]) = 0 THEN [rec |-> rec, status |-> "panic"]
    ELSE LET a == rdn_seq[i][1]
             r == oid2sn(a.attr_type)
         IN  IF ~r.ok THEN [rec |-> rec, status |-> "err"]
             ELSE IF ~a.is_str THEN [rec |-> rec, status |-> "panic"]
             ELSE issuer_loop(
                    IF r.sn = "CN" THEN [rec EXCEPT !.issuer = a.value] ELSE rec,
                    rdn_seq, i + 1)

subject_field(rec, sn, v) ==
    CASE sn = "C"  -> [rec EXCEPT !.country = v]
      [] sn = "ST" -> [rec EXCEPT !.state = v]
      [] sn = "L"  -> [rec EXCEPT !.locality = v]
      [] sn = "CN" -> [rec EXCEPT !.common_name = v]
      [] sn = "O"  -> [rec EXCEPT !.organization = v]
      [] OTHER -> rec

RECURSIVE subject_loop(_, _, _)
subject_loop(rec, rdn_seq, i) ==
    IF i > Len(rdn_seq) THEN [rec |-> rec, status |-> "ok"]
    ELSE IF Len(rdn_seq[i]) = 0 THEN [rec |-> rec, status |-> "panic"]
    ELSE LET a == rdn_seq[i][1]
             r == oid2sn(a.attr_type)
         IN  IF ~r.ok THEN [rec |-> rec, status |-> "err"]
             ELSE IF ~a.is_str THEN [rec |-> rec, status |-> "panic"]
             ELSE subject_loop(subject_field(rec, r.sn, a.value), rdn_seq, i + 1)

\* names_loops that goes on to the subject after a failed issuer loop.
names_loops_continue(rec, c) ==
    subject_loop(issuer_loop(rec, c.issuer, 1).rec, c.subject, 1)

names_loops(rec, c) ==
    LET i == issuer_loop(rec, c.issuer, 1)
    IN  IF i.status # "ok" THEN i ELSE subject_loop(i.rec, c.subject, 1)

\* The `if is_ca` branch: t1 is the clock read by is_valid, t2 the one read
\* by time_to_expiration.
ca_branch(rec, c, t1, t2) ==
    LET r1 == set_validity(rec, c, t1)
        sa == oid2sn(c.sig_oid)
    IN  IF ~sa.ok THEN [rec |-> r1, status |-> "err"]
        ELSE names_loops(
               set_expiration([r1 EXCEPT !.signature_algorithm = sa.sn], c, t2), c)

\* The `else` branch.
leaf_branch(rec, c, t1, t2) ==
    LET r1 == set_validity(rec, c, t1)
        sa == oid2sn(c.sig_oid)
    IN  IF ~sa.ok THEN [rec |-> r1, status |-> "err"]
        ELSE names_loops(
               set_expiration(
                 push_sans([r1 EXCEPT !.signature_algorithm = sa.sn], c), c, t2), c)

\* What from_domain returns.
Running == [kind |-> "None", error |-> "", msg |-> ""]
Ok      == [kind |-> "Ok", error |-> "", msg |-> ""]
Err(k, m) == [kind |-> "Err", error |-> k, msg |-> m]
Panic(m) == [kind |-> "Panic", error |-> "", msg |-> m]

after(status) ==
    CASE status = "ok"  -> Running
      [] status = "err" -> Err("Other", "Error converting Oid to Nid")
      [] OTHER -> Panic("unwrap")

(***************************************************************************)
(* The state machine.                                                      *)
(***************************************************************************)

None == [some |-> FALSE, certificates |-> <<>>]
Some(ch) == [some |-> TRUE, certificates |-> ch]

Init ==
    /\ pc = "connect"
    /\ peer = None
    /\ idx = 1
    /\ now \in ClockReads
    /\ server_cert = NewServerCert(now)
    /\ intermediate_cert = NewIntermediateCert(now)
    /\ result = Running
    /\ reads = <<>>

\* TcpStream::connect(...)? fails: the io::Error is returned as is.
ConnectError ==
    /\ pc = "connect"
    /\ \E k \in {"ConnectionRefused", "TimedOut"} : result' = Err(k, "connect")
    /\ pc' = "done"
    /\ UNCHANGED <<peer, idx, server_cert, intermediate_cert, now, reads>>

\* try_into().unwrap(), ClientConnection::new(..).unwrap() or
\* write_all(..).unwrap() panics.
HandshakePanic ==
    /\ pc = "connect"
    /\ result' = Panic("handshake")
    /\ pc' = "done"
    /\ UNCHANGED <<peer, idx, server_cert, intermediate_cert, now, reads>>

\* The handshake completes under NoCertificateVerification, which accepts
\* whatever the server presents; the two records are created; the session
\* then holds the peer certificates, or none.
Handshake ==
    /\ pc = "connect"
    /\ \E t \in ClockReads :
         /\ t >= now
         /\ now' = t
         /\ server_cert' = NewServerCert(t)
         /\ intermediate_cert' = NewIntermediateCert(t)
    /\ \E p \in {None} \cup { Some(ch) : ch \in Chains } : peer' = p
    /\ pc' = "certificates"
    /\ UNCHANGED <<idx, result, reads>>

\* peer_certificates() is None.
CertificateNotFound ==
    /\ pc = "certificates"
    /\ ~peer.some
    /\ result' = Err("NotFound", "certificate not found")
    /\ pc' = "done"
    /\ UNCHANGED <<peer, idx, server_cert, intermediate_cert, now, reads>>

InLoop == pc = "certificates" /\ peer.some /\ idx <= Len(peer.certificates)

\* parse_x509_der fails on the certificate at idx.
DecodeError ==
    /\ InLoop
    /\ ~peer.certificates[idx].der_ok
    /\ result' = Err("Other", "decode")
    /\ pc' = "done"
    /\ UNCHANGED <<peer, idx, server_cert, intermediate_cert, now, reads>>

\* One iteration on a CA certificate.
IntermediateStep ==
    /\ InLoop
    /\ LET c == peer.certificates[idx]
       IN  /\ c.der_ok
           /\ is_ca(c)
           /\ \E t1, t2 \in ClockReads :
                /\ now <= t1 /\ t1 <= t2
                /\ LET out == ca_branch(intermediate_cert, c, t1, t2)
                   IN  /\ intermediate_cert' = out.rec
                       /\ result' = after(out.status)
                       /\ pc' = IF out.status = "ok" THEN pc ELSE "done"
                       /\ idx' = IF out.status = "ok" THEN idx + 1 ELSE idx
                /\ now' = t2
                /\ reads' = Append(reads, <<t1, t2>>)
    /\ UNCHANGED <<peer, server_cert>>

\* One iteration on a certificate that is no CA.
ServerStep ==
    /\ InLoop
    /\ LET c == peer.certificates[idx]
       IN  /\ c.der_ok
           /\ ~is_ca(c)
           /\ \E t1, t2 \in ClockReads :
                /\ now <= t1 /\ t1 <= t2
                /\ LET out == leaf_branch(server_cert, c, t1, t2)
                   IN  /\ server_cert' = out.rec
                       /\ result' = after(out.status)
                       /\ pc' = IF out.status = "ok" THEN pc ELSE "done"
                       /\ idx' = IF out.status = "ok" THEN idx + 1 ELSE idx
                /\ now' = t2
                /\ reads' = Append(reads, <<t1, t2>>)
    /\ UNCHANGED <<peer, intermediate_cert>>

\* The loop is over: Ok(Cert { server, intermediate }).
ReturnOk ==
    /\ pc = "certificates"
    /\ peer.some
    /\ idx > Len(peer.certificates)
    /\ result' = Ok
    /\ pc' = "done"
    /\ UNCHANGED <<peer, idx, server_cert, intermediate_cert, now, reads>>

Next ==
    \/ ConnectError
    \/ HandshakePanic
    \/ Handshake
    \/ CertificateNotFound
    \/ DecodeError
    \/ IntermediateStep
    \/ ServerStep
    \/ ReturnOk

Spec == Init /\ [][Next]_vars

(***************************************************************************)
(* Vocabulary of the properties.                                           *)
(***************************************************************************)

chain == peer.certificates

\* The handshake completed and the pass has returned.
Returned == pc = "done" /\ result.msg \notin {"connect", "handshake"}

\* The first attributes of the RDNs of a name (the ones the pass consults).
Consulted(rdn_seq) == { rdn_seq[i][1] : i \in { j \in 1..Len(rdn_seq) : Len(rdn_seq[j]) > 0 } }

Registered(oid) ==
    oid \in {OID_CN, OID_C, OID_L, OID_ST, OID_O, OID_OU, OID_SHA256RSA}

\* Decoding fails, or the signature-algorithm OID or a consulted
\* attribute-type OID does not resolve.
Fails(c) ==
    \/ ~c.der_ok
    \/ ~Registered(c.sig_oid)
    \/ \E a \in Consulted(c.issuer) \cup Consulted(c.subject) : ~Registered(a.attr_type)

\* A consulted attribute value is no character string, or an RDN is empty.
Unreadable(c) ==
    \/ \E a \in Consulted(c.issuer) \cup Consulted(c.subject) : ~a.is_str
    \/ \E i \in 1..Len(c.issuer) : Len(c.issuer[i]) = 0
    \/ \E i \in 1..Len(c.subject) : Len(c.subject[i]) = 0

Clean(c) == ~Fails(c) /\ ~Unreadable(c)

IsCA(c) == c.basic_constraints = "true"

Within(c, t) == c.not_before <= t /\ t <= c.not_after

CAs(n) == { i \in 1..n : IsCA(chain[i]) }
Leaves(n) == { i \in 1..n : ~IsCA(chain[i]) }

Max(S) == CHOOSE x \in S : \A y \in S : y <= x
Min(S) == CHOOSE x \in S : \A y \in S : x <= y

\* The DNS entries of a SAN extension, as a subsequence.
DnsOnly(san) ==
    IF ~san.present THEN <<>>
    ELSE LET dns == SelectSeq(san.general_names, LAMBDA g : g.kind = "DNSName")
         IN  [i \in 1..Len(dns) |-> dns[i].value]

(***************************************************************************)
(* C1 .. C4: what the pass returns.                                        *)
(***************************************************************************)

\* C1: when the handshake yields no certificate at all (no chain, or a
\* chain of zero certificates), from_domain returns the NotFound error and
\* never Ok with the two default records.
C1_EmptyChainIsNotFound ==
    (Returned /\ Len(chain) = 0) =>
        (result.kind = "Err" /\ result.error = "NotFound")

\* C2: all-or-nothing.  Once the pass has returned on a chain holding a
\* certificate whose decoding or OID resolution fails, the result is never
\* Ok, the pass stopped at the first certificate it could not process
\* (none was skipped), and when that certificate's failure is a decoding or
\* OID-resolution failure the result is an error (ErrorKind::Other),
\* however many certificates precede it.
C2_AllOrNothing ==
    (Returned /\ peer.some /\ \E i \in 1..Len(chain) : Fails(chain[i])) =>
        LET k == Min({ i \in 1..Len(chain) : ~Clean(chain[i]) })
        IN  /\ result.kind # "Ok"
            /\ idx = k
            /\ (Fails(chain[k]) /\ ~Unreadable(chain[k])) =>
                   (result.kind = "Err" /\ result.error = "Other")

\* C2's case: an error returned for the second certificate of a chain
\* whose first certificate had been processed.
C2_Witness ==
    /\ Returned /\ peer.some /\ Len(chain) = 2
    /\ Clean(chain[1]) /\ Fails(chain[2]) /\ chain[2].der_ok
    /\ idx = 2 /\ result.kind = "Err"

C4_ExpiredIsInvalidData ==
    ( /\ Returned /\ peer.some /\ Len(chain) >= 1
      /\ ~IsCA(chain[1])
      /\ \A t \in ClockReads : chain[1].not_after < t )
    => (result.kind = "Err" /\ result.error = "InvalidData")

(***************************************************************************)
(* C5 .. C7: one certificate and the record it is written into.            *)
(***************************************************************************)

\* The certificate of the latest iteration, its clock reads and the record
\* of its classification.
Last == chain[Len(reads)]
LastRecord == IF IsCA(Last) THEN intermediate_cert ELSE server_cert
ValidRead == reads[Len(reads)][1]
ExpirationRead == reads[Len(reads)][2]

\* C5: after a certificate has been written into a record, the record's
\* is_valid is true exactly when not_before <= now <= not_after, both
\* bounds inclusive, with now the clock read of that iteration; the window
\* of the record is that certificate's window.
C5_IsValidIffWithinWindow ==
    (Len(reads) >= 1) =>
        /\ LastRecord.is_valid =
              (Last.not_before <= ValidRead /\ ValidRead <= Last.not_after)
        /\ LastRecord.not_before = Last.not_before
        /\ LastRecord.not_after = Last.not_after

\* C5's case: a CA certificate that follows a valid leaf and expires
\* exactly at the clock read is valid, the leaf's validity playing no part.
C5_Witness ==
    /\ Len(reads) = 2
    /\ IsCA(Last) /\ ~IsCA(chain[1])
    /\ ValidRead = Last.not_after
    /\ intermediate_cert.is_valid
    /\ server_cert.is_valid

\* The first certificate of the chain went through its iteration up to the
\* time_to_expiration call (its signature algorithm resolved).
FirstAlone == Len(reads) = 1 /\ Registered(Last.sig_oid)

\* C6 as stated: for a single certificate, time_to_expiration is populated
\* if and only if not_after > now, a not-yet-valid certificate included,
\* and is then "<d> day(s)" with d = floor((not_after - now) / 86400).
C6_PopulatedIffNotAfterInFuture ==
    FirstAlone =>
        /\ (LastRecord.time_to_expiration # "") = (Last.not_after > ExpirationRead)
        /\ (Last.not_after > ExpirationRead) =>
              LastRecord.time_to_expiration =
                  ToString((Last.not_after - ExpirationRead) \div 86400) \o " day(s)"

\* C6 amended: for a single certificate, time_to_expiration is populated
\* if and only if not_before <= now <= not_after (the certificate is valid
\* at that clock read), and is then "<d> day(s)" with
\* d = floor((not_after - now) / 86400), a non-negative whole number.
C6_PopulatedIffValid ==
    FirstAlone =>
        LET left == Last.not_after - ExpirationRead
        IN  /\ (LastRecord.time_to_expiration # "") =
                  (Last.not_before <= ExpirationRead /\ ExpirationRead <= Last.not_after)
            /\ (LastRecord.time_to_expiration # "") =>
                  /\ left >= 0
                  /\ LastRecord.time_to_expiration =
                         ToString(left \div 86400) \o " day(s)"

\* C6's case: one second short of two days left is 1 day.
C6_Witness ==
    /\ FirstAlone
    /\ Last.not_after - ExpirationRead = 172798
    /\ LastRecord.time_to_expiration = "1 day(s)"

\* C7: an iteration on a decoded certificate writes that certificate's
\* window into the intermediate record if its basic-constraints extension
\* is present with the CA flag true and into the server record otherwise,
\* and leaves the other record as it was.
C7_OneRecordPerCertificate ==
    [][ (InLoop /\ chain[idx].der_ok /\ reads' # reads) =>
          LET c == chain[idx]
              written(rec) == rec.not_before = c.not_before /\ rec.not_after = c.not_after
          IN  IF c.basic_constraints = "true"
              THEN server_cert' = server_cert /\ written(intermediate_cert')
              ELSE intermediate_cert' = intermediate_cert /\ written(server_cert')
      ]_vars

\* C7's case: a certificate whose extension is present with the CA flag
\* false was written into the server record, the intermediate record
\* keeping its defaults.
C7_Witness ==
    /\ Len(reads) = 1
    /\ chain[1].basic_constraints = "false"
    /\ server_cert.common_name = "base"
    /\ server_cert.signature_algorithm = "RSA-SHA256"
    /\ intermediate_cert.signature_algorithm = ""
    /\ intermediate_cert.common_name = ""

(***************************************************************************)
(* C8 .. C10: what a whole pass leaves in the two records.                 *)
(***************************************************************************)

\* C8: after a pass that returned Ok on a chain with exactly one
\* certificate that is no CA, server.sans is the subsequence of DNS-type
\* general names of that certificate's SAN extension, in order and with
\* duplicates, and is empty when the extension is absent.
C8_SansAreTheLeafDnsNames ==
    (Returned /\ result.kind = "Ok" /\ Cardinality(Leaves(Len(chain))) = 1) =>
        LET j == CHOOSE i \in Leaves(Len(chain)) : TRUE
        IN  server_cert.sans = DnsOnly(chain[j].san)

\* C8's case: [DNS:a.com, IP:1.2.3.4, DNS:b.com] behind a CA certificate
\* that carries a SAN of its own.
C8_Witness ==
    /\ Returned /\ result.kind = "Ok" /\ Len(chain) = 2
    /\ IsCA(chain[1]) /\ chain[1].san.present
    /\ ~IsCA(chain[2]) /\ Len(chain[2].san.general_names) = 3
    /\ server_cert.sans = <<"a.com", "b.com">>

\* The value an attribute type has in a name: that of the last RDN whose
\* first attribute has this type, empty when there is none.
AttrValue(rdn_seq, oid) ==
    LET at == { i \in 1..Len(rdn_seq) :
                  Len(rdn_seq[i]) > 0 /\ rdn_seq[i][1].attr_type = oid }
    IN  IF at = {} THEN "" ELSE rdn_seq[Max(at)][1].value

\* The intermediate record a chain made of the certificate c alone gives,
\* with the clock reads rd.
AloneCA(c, rd) ==
    [ common_name  |-> AttrValue(c.subject, OID_CN),
      country      |-> AttrValue(c.subject, OID_C),
      state        |-> AttrValue(c.subject, OID_ST),
      locality     |-> AttrValue(c.subject, OID_L),
      organization |-> AttrValue(c.subject, OID_O),
      issuer       |-> AttrValue(c.issuer, OID_CN),
      signature_algorithm |-> oid2sn(c.sig_oid).sn,
      not_before |-> c.not_before,
      not_after  |-> c.not_after,
      is_valid   |-> Within(c, rd[1]),
      time_to_expiration |->
          IF Within(c, rd[2])
          THEN ToString((c.not_after - rd[2]) \div 86400) \o " day(s)"
          ELSE "" ]

\* C9: after a pass that returned Ok on a chain with several CA
\* certificates, every field of the intermediate record is what the last
\* CA certificate alone gives: empty where that certificate lacks the
\* attribute or is expired, whatever an earlier CA certificate had.
C9_IntermediateIsLastCAAlone ==
    (Returned /\ result.kind = "Ok" /\ Cardinality(CAs(Len(chain))) >= 2) =>
        LET j == Max(CAs(Len(chain)))
        IN  intermediate_cert = AloneCA(chain[j], reads[j])

\* The positions, among the first n, of the certificates that are no CA
\* and set a given field.
SetsAttr(n, oid) == { i \in Leaves(n) : AttrValue(chain[i].subject, oid) # "" }
SetsIssuer(n) == { i \in Leaves(n) : AttrValue(chain[i].issuer, OID_CN) # "" }
SetsExpiration(n) == { i \in Leaves(n) : Within(chain[i], reads[i][2]) }

\* The DNS names of the certificates that are no CA among the first n, in
\* chain order.
RECURSIVE AllDns(_)
AllDns(n) ==
    IF n = 0 THEN <<>>
    ELSE AllDns(n - 1) \o (IF IsCA(chain[n]) THEN <<>> ELSE DnsOnly(chain[n].san))

\* The server record once the first n certificates went through.
C10_ServerAfter(n) ==
    LET from(S, f(_)) == IF S = {} THEN "" ELSE f(Max(S))
    IN  /\ server_cert.sans = AllDns(n)
        /\ server_cert.common_name =
              from(SetsAttr(n, OID_CN), LAMBDA i : AttrValue(chain[i].subject, OID_CN))
        /\ server_cert.country =
              from(SetsAttr(n, OID_C), LAMBDA i : AttrValue(chain[i].subject, OID_C))
        /\ server_cert.state =
              from(SetsAttr(n, OID_ST), LAMBDA i : AttrValue(chain[i].subject, OID_ST))
        /\ server_cert.locality =
              from(SetsAttr(n, OID_L), LAMBDA i : AttrValue(chain[i].subject, OID_L))
        /\ server_cert.organization =
              from(SetsAttr(n, OID_O), LAMBDA i : AttrValue(chain[i].subject, OID_O))
        /\ server_cert.issuer =
              from(SetsIssuer(n), LAMBDA i : AttrValue(chain[i].issuer, OID_CN))
        /\ server_cert.time_to_expiration =
              from(SetsExpiration(n), LAMBDA i :
                     ToString((chain[i].not_after - reads[i][2]) \div 86400) \o " day(s)")
        /\ Leaves(n) # {} =>
              LET l == chain[Max(Leaves(n))]
              IN  /\ server_cert.is_valid = Within(l, reads[Max(Leaves(n))][1])
                  /\ server_cert.not_before = l.not_before
                  /\ server_cert.not_after = l.not_after
                  /\ server_cert.signature_algorithm = oid2sn(l.sig_oid).sn

\* C10: server.sans is never reset during a pass: as long as no iteration
\* has failed, and in the summary returned, server.sans is the
\* concatenation, in chain order, of the DNS names of all the certificates
\* gone through that are no CA, while each scalar field of the server
\* record comes from the last such certificate that sets it; and no step
\* makes server.sans shorter.
C10_SansAccumulate ==
    /\ [](( /\ pc # "connect" /\ peer.some
            /\ result.kind \in {"None", "Ok"} ) => C10_ServerAfter(idx - 1))
    /\ [][Len(server_cert'.sans) >= Len(server_cert.sans)]_vars

\* C10's case: two certificates that are no CA, both with DNS names.
C10_Witness ==
    /\ Returned /\ result.kind = "Ok" /\ Len(chain) = 2
    /\ server_cert.sans = <<"a.com", "b.com", "a.com", "a.com">>
    /\ chain[2].san.general_names = <<DNS("a.com"), DNS("a.com")>>

====
